---- MODULE Spec2Model ----
(***************************************************************************)
(* Model of the boda2 training harness.                                    *)
(*                                                                         *)
(*   src/boda/model/customModel_example.py  MPRAregressionModel            *)
(*   src/src/main.py                        main, _save_model,             *)
(*                                          unpack_artifact, model_fn      *)
(*                                                                         *)
(* Four specifications share the module:                                   *)
(*   SpecDim      MPRAregressionModel.__init__ and its layer dimension     *)
(*                chain, over every shape within the bounds;               *)
(*   SpecSteps    configure_optimizers and the three per-batch steps;      *)
(*   SpecCompose  the run-time composition of main applied to one model    *)
(*                instance, once per graph class;                          *)
(*   Spec         the training driver: main, _save_model, unpack_artifact  *)
(*                and model_fn over a small file system.                   *)
(***************************************************************************)
EXTENDS Integers, Sequences, FiniteSets, TLC

VARIABLES
    \* ---- customModel_example.py ----
    modelParams,      \* the dictionary handed to MPRAregressionModel.__init__
    self,             \* the instance's attributes once __init__ has run
    batch,            \* the batch the steps are called with
    stepResult,       \* per step: NotRun, or how the call ended
    optimizerResult,  \* how configure_optimizers ended
    \* ---- main.py ----
    args,             \* the organised command line
    pc,               \* position of main / _save_model
    model,            \* the model object of main
    types,            \* classes made at run time by type(...)
    trainer_log,      \* the steps of main that completed, in order
    fs,               \* local files: path -> content
    cloud,            \* cloud objects: path -> content
    cwd_extract,      \* what shutil.unpack_archive left in the working directory
    gsutil_calls,     \* argument lists the copy command was invoked with
    unpack,           \* the current unpack_artifact call
    restored          \* what model_fn returned

mvars == <<modelParams, self, batch, stepResult, optimizerResult>>
dvars == <<args, pc, model, types, trainer_log, fs, cloud, cwd_extract,
           gsutil_calls, unpack, restored>>
vars == <<mvars, dvars>>

\* Python's None, and the mark of a call that has not been made.
None == [none |-> TRUE]
NotRun == [status |-> "NotRun"]

(***************************************************************************)
(* Bounds of the model.                                                    *)
(***************************************************************************)
MaxLen == 7       \* seqLen ranges over 0..MaxLen (and the default 600)
MaxKernel == 3    \* kernelSize1 in 1..MaxKernel
MaxStride == 3    \* stride1 in 1..MaxStride
MaxPad == 1       \* padding1 in 0..MaxPad
MaxDil == 2       \* dilation1 in 1..MaxDil
MaxPool == 2      \* pooling and second-stage kernels and strides in 1..MaxPool
MaxVal == 2       \* tensor entries and hyperparameter values
BatchLen == 2     \* samples in a batch
MaxW == 1         \* a layer's weights are one number in 0..MaxW

(***************************************************************************)
(* customModel_example.py                                                  *)
(***************************************************************************)

\* add_model_specific_args: the defaults of the network's shape arguments.
DefaultParams ==
    [seqLen |-> 600, kernelSize1 |-> 6, stride1 |-> 3, padding1 |-> 0,
     dilation1 |-> 1, poolKernel1 |-> 4, poolStride1 |-> 2,
     kernelSize2 |-> 4, stride2 |-> 2, padding2 |-> 0, dilation2 |-> 1,
     poolKernel2 |-> 2, poolStride2 |-> 2]

\* Python's // on integers: floor division (the divisor is positive here).
FloorDiv(a, b) == a \div b

\* A plausible slip: C-style division that truncates toward zero.
conv1D_OutDim_trunc(L_in, kernel_size, stride, padding, dilation) ==
    LET n == L_in + 2*padding - dilation*(kernel_size - 1) - 1
    IN  (IF n >= 0 THEN n \div stride ELSE -((-n) \div stride)) + 1

\* conv1D_OutDim(L_in, kernel_size, stride, padding=0, dilation=1)
conv1D_OutDim(L_in, kernel_size, stride, padding, dilation) ==
    FloorDiv(L_in + 2*padding - dilation*(kernel_size - 1) - 1, stride) + 1

\* The optimizer strings tried; only the first two are recognised.
OptimizerNames == {"Adam", "RMS", "SGD"}

ShapeParams ==
    {DefaultParams} \cup
    [seqLen : 0..MaxLen, kernelSize1 : 1..MaxKernel, stride1 : 1..MaxStride,
     padding1 : 0..MaxPad, dilation1 : 1..MaxDil,
     poolKernel1 : 1..MaxPool, poolStride1 : 1..MaxPool,
     kernelSize2 : 1..MaxPool, stride2 : 1..MaxPool,
     padding2 : {0}, dilation2 : {1},
     poolKernel2 : {MaxPool}, poolStride2 : {MaxPool}]

\* MPRAregressionModel.__init__: the attributes it sets (the layer objects
\* themselves belong to the framework).
MPRAregressionModel_init(p, opt) ==
    LET convLayerLen1 == conv1D_OutDim(p.seqLen, p.kernelSize1, p.stride1,
                                       p.padding1, p.dilation1)
        poolLayerLen1 == conv1D_OutDim(convLayerLen1, p.poolKernel1,
                                       p.poolStride1, 0, 1)
        convLayerLen2 == conv1D_OutDim(poolLayerLen1, p.kernelSize2, p.stride2,
                                       p.padding2, p.dilation2)
        poolLayerLen2 == conv1D_OutDim(convLayerLen2, p.poolKernel2,
                                       p.poolStride2, 0, 1)
    IN  [optimizer |-> opt,
         seqLen |-> p.seqLen,
         kernelSize1 |-> p.kernelSize1, stride1 |-> p.stride1,
         padding1 |-> p.padding1, dilation1 |-> p.dilation1,
         convLayerLen1 |-> convLayerLen1,
         poolKernel1 |-> p.poolKernel1, poolStride1 |-> p.poolStride1,
         poolLayerLen1 |-> poolLayerLen1,
         kernelSize2 |-> p.kernelSize2, stride2 |-> p.stride2,
         padding2 |-> p.padding2, dilation2 |-> p.dilation2,
         convLayerLen2 |-> convLayerLen2,
         poolKernel2 |-> p.poolKernel2, poolStride2 |-> p.poolStride2,
         poolLayerLen2 |-> poolLayerLen2]

\* The names an MPRAregressionModel answers to besides the attributes of
\* __init__: the methods of the class.  There is no "loss" among them.
MPRAregressionModel_methods ==
    {"forward", "training_step", "validation_step", "test_step",
     "configure_optimizers", "conv1D_OutDim", "add_model_specific_args"}

HasAttr(obj, name) ==
    name \in DOMAIN obj \/ name \in MPRAregressionModel_methods

\* F.mse_loss(y_hat, y): the mean of the squared differences, kept as the
\* exact fraction sum/n.
RECURSIVE SumSq(_, _)
SumSq(a, b) ==
    IF a = <<>> THEN 0
    ELSE (Head(a) - Head(b)) * (Head(a) - Head(b)) + SumSq(Tail(a), Tail(b))

mse_loss(y_hat, y) == [sum |-> SumSq(y_hat, y), n |-> Len(y)]

Tensors == [1..BatchLen -> 0..MaxVal]
\* A batch, with the prediction self(x) the network gives for it.
Batches == [y_hat : Tensors, y : Tensors]

StepNames == {"training_step", "validation_step", "test_step"}

\* The main.py side of the state, at rest.
DriverIdle ==
    /\ args = None
    /\ pc = "idle"
    /\ model = None
    /\ types = <<>>
    /\ trainer_log = <<>>
    /\ fs = <<>>
    /\ cloud = <<>>
    /\ cwd_extract = None
    /\ gsutil_calls = <<>>
    /\ unpack = NotRun
    /\ restored = NotRun

ModelIdle ==
    /\ self = None
    /\ batch = None
    /\ stepResult = [s \in StepNames |-> NotRun]
    /\ optimizerResult = NotRun

\* model = MPRAregressionModel(paramDict)
Construct ==
    /\ self = None
    /\ self' = MPRAregressionModel_init(modelParams.shape, modelParams.optimizer)
    /\ UNCHANGED <<modelParams, batch, stepResult, optimizerResult>>

\* The framework hands the model a new batch.
NextBatch ==
    /\ self # None
    /\ \E b \in Batches : batch' = b
    /\ stepResult' = [s \in StepNames |-> NotRun]
    /\ UNCHANGED <<modelParams, self, optimizerResult>>

training_step ==
    /\ self # None /\ batch # None
    /\ stepResult["training_step"] = NotRun
    /\ stepResult' = [stepResult EXCEPT !["training_step"] =
                        [status |-> "returned",
                         loss |-> mse_loss(batch.y_hat, batch.y)]]
    /\ UNCHANGED <<modelParams, self, batch, optimizerResult>>

validation_step ==
    /\ self # None /\ batch # None
    /\ stepResult["validation_step"] = NotRun
    /\ stepResult' = [stepResult EXCEPT !["validation_step"] =
                        [status |-> "returned",
                         loss |-> mse_loss(batch.y_hat, batch.y)]]
    /\ UNCHANGED <<modelParams, self, batch, optimizerResult>>

\* test_step reads self.loss, which nothing defines.
test_step ==
    /\ self # None /\ batch # None
    /\ stepResult["test_step"] = NotRun
    /\ stepResult' = [stepResult EXCEPT !["test_step"] =
                        IF HasAttr(self, "loss")
                        THEN [status |-> "returned",
                              loss |-> mse_loss(batch.y_hat, batch.y)]
                        ELSE [status |-> "AttributeError", loss |-> None]]
    /\ UNCHANGED <<modelParams, self, batch, optimizerResult>>

\* configure_optimizers: neither branch binds the local for another string,
\* and the return statement then fails.
configure_optimizers ==
    /\ self # None
    /\ optimizerResult = NotRun
    /\ optimizerResult' =
         IF self.optimizer = "Adam"
         THEN [status |-> "returned", optimizer |-> "torch.optim.Adam"]
         ELSE IF self.optimizer = "RMS"
         THEN [status |-> "returned", optimizer |-> "torch.optim.RMSprop"]
         ELSE [status |-> "UnboundLocalError", optimizer |-> None]
    /\ UNCHANGED <<modelParams, self, batch, stepResult>>

\* ---- SpecDim: construction over every shape within the bounds ----
DimInit ==
    /\ modelParams \in [shape : ShapeParams, optimizer : {"Adam"}]
    /\ ModelIdle
    /\ DriverIdle

DimNext == Construct /\ UNCHANGED dvars

SpecDim == DimInit /\ [][DimNext]_vars

\* ---- SpecSteps: the default network, its optimizer and its steps ----
StepsInit ==
    /\ modelParams \in [shape : {DefaultParams}, optimizer : OptimizerNames]
    /\ ModelIdle
    /\ DriverIdle

StepsNext ==
    \/ Construct /\ UNCHANGED dvars
    \/ NextBatch /\ UNCHANGED dvars
    \/ training_step /\ UNCHANGED dvars
    \/ validation_step /\ UNCHANGED dvars
    \/ test_step /\ UNCHANGED dvars
    \/ configure_optimizers /\ UNCHANGED dvars

SpecSteps == StepsInit /\ [][StepsNext]_vars

(***************************************************************************)
(* main.py: objects, classes and attribute lookup                          *)
(***************************************************************************)

\* boda.data, boda.model and boda.graph: the names getattr finds there.
DataRegistry == {"DataA"}
ModelRegistry == {"MPRAregressionModel", "ModelB"}
GraphRegistry == {"GraphA", "GraphB"}

\* Hyperparameters the model's process_args extracts, which the constructor
\* stores one by one (self.LR = ..., self.seqLen = ...), and the layer
\* containers the constructor registers (self.convLayers = nn.Sequential(...)).
ModelHparamNames == {"LR", "seqLen"}
ModuleNames == {"convLayers", "linearLayers"}
\* Hyperparameter names a graph class may declare: one that the model also
\* stores, one that names a layer container of the model, one of its own.
GraphHparamNames == {"LR", "convLayers", "reduction"}

ModelHparams == [ModelHparamNames -> 1..MaxVal]
GraphHparams ==
    {[n \in S |-> v] : S \in SUBSET GraphHparamNames, v \in 1..MaxVal}
Weights == [ModuleNames -> 0..MaxW]

RegistryClass(name) == [kind |-> "registry", name |-> name]
DynamicClass(id) == [kind |-> "dynamic", id |-> id]

\* model_module(**vars(hparams)): plain attributes go to the instance's
\* __dict__, layer containers to its _modules; w is the random initialisation.
NewModel(model_module, hparams, w) ==
    [cls |-> RegistryClass(model_module),
     dict |-> hparams,
     modules |-> w,
     training |-> TRUE]

\* A slip that copies the graph hyperparameters onto the instance as well.
ComposeModel_setattr(m, ts, model_module, graph_module, graph_hparams) ==
    [model |-> [m EXCEPT !.cls = DynamicClass(Len(ts) + 1),
                         !.dict = [n \in DOMAIN graph_hparams \cup DOMAIN m.dict |->
                                     IF n \in DOMAIN graph_hparams
                                     THEN graph_hparams[n] ELSE m.dict[n]]],
     types |-> Append(ts, [name |-> "BODA_module",
                           bases |-> <<model_module, graph_module>>,
                           ns |-> graph_hparams])]

\* model.__class__ = type('BODA_module', (model_module, graph_module),
\*                        vars(graph_module.process_args(args)))
\* type(...) makes a new class each time it is called; the instance itself
\* is not written to.
ComposeModel(m, ts, model_module, graph_module, graph_hparams) ==
    [model |-> [m EXCEPT !.cls = DynamicClass(Len(ts) + 1)],
     types |-> Append(ts, [name |-> "BODA_module",
                           bases |-> <<model_module, graph_module>>,
                           ns |-> graph_hparams])]

\* What a class lookup along the method resolution order finds: the class's
\* own namespace first, then its bases.  Graph classes are not part of the
\* sources; of the model classes the methods of MPRAregressionModel are known.
ClassLookup(ts, cls, name) ==
    IF cls.kind = "dynamic" /\ name \in DOMAIN ts[cls.id].ns
    THEN [found |-> TRUE, value |-> [kind |-> "value", v |-> ts[cls.id].ns[name]]]
    ELSE IF name \in MPRAregressionModel_methods
    THEN [found |-> TRUE, value |-> [kind |-> "method", name |-> name]]
    ELSE [found |-> FALSE]

\* A lookup that consults the class namespace before the instance.
GetAttr_classFirst(ts, m, name) ==
    LET c == ClassLookup(ts, m.cls, name)
    IN  IF c.found
        THEN [status |-> "ok", from |-> "class", value |-> c.value]
        ELSE IF name \in DOMAIN m.dict
        THEN [status |-> "ok", from |-> "instance",
              value |-> [kind |-> "value", v |-> m.dict[name]]]
        ELSE IF name \in DOMAIN m.modules
        THEN [status |-> "ok", from |-> "modules",
              value |-> [kind |-> "module", name |-> name, w |-> m.modules[name]]]
        ELSE [status |-> "AttributeError"]

\* Reading model.<name> on the object whose class main replaced: the
\* instance's __dict__, then the class (a plain value in a class namespace is
\* no data descriptor), and only when both fail the module's __getattr__,
\* which serves the registered layers.
GetAttr(ts, m, name) ==
    LET c == ClassLookup(ts, m.cls, name)
    IN  IF name \in DOMAIN m.dict
        THEN [status |-> "ok", from |-> "instance",
              value |-> [kind |-> "value", v |-> m.dict[name]]]
        ELSE IF c.found
        THEN [status |-> "ok", from |-> "class", value |-> c.value]
        ELSE IF name \in DOMAIN m.modules
        THEN [status |-> "ok", from |-> "modules",
              value |-> [kind |-> "module", name |-> name, w |-> m.modules[name]]]
        ELSE [status |-> "AttributeError"]

\* The graph classes the instance has been composed with so far.
GraphsUsed == {types[i].bases[2] : i \in 1..Len(types)}

\* ---- SpecCompose: lines 24-30 of main on one instance ----
ComposeInit ==
    /\ modelParams = None
    /\ ModelIdle
    /\ args \in [model_module : ModelRegistry, model_hparams : ModelHparams,
                 graph_module : {"GraphA"}, graph_hparams : {<<>>}]
    /\ pc = "resolved"
    /\ model = None
    /\ types = <<>>
    /\ trainer_log = <<>>
    /\ fs = <<>>
    /\ cloud = <<>>
    /\ cwd_extract = None
    /\ gsutil_calls = <<>>
    /\ unpack = NotRun
    /\ restored = NotRun

\* model = model_module(**vars(model_module.process_args(args)))
CInstantiate ==
    /\ pc = "resolved"
    /\ \E w \in Weights :
         model' = NewModel(args.model_module, args.model_hparams, w)
    /\ pc' = "instantiated"
    /\ trainer_log' = Append(trainer_log, [step |-> "instantiate"])
    /\ UNCHANGED <<args, types>>

\* The composition statement, with a graph class not used before.
CCompose ==
    /\ pc \in {"instantiated", "composed"}
    /\ \E g \in GraphRegistry \ GraphsUsed, ghp \in GraphHparams :
         LET r == ComposeModel(model, types, args.model_module, g, ghp)
         IN  /\ args' = [args EXCEPT !.graph_module = g, !.graph_hparams = ghp]
             /\ model' = r.model
             /\ types' = r.types
             /\ trainer_log' = Append(trainer_log,
                                      [step |-> "compose", cls |-> r.model.cls])
    /\ pc' = "composed"

ComposeNext ==
    \/ CInstantiate /\ UNCHANGED <<mvars, fs, cloud, cwd_extract, gsutil_calls,
                                   unpack, restored>>
    \/ CCompose /\ UNCHANGED <<mvars, fs, cloud, cwd_extract, gsutil_calls,
                               unpack, restored>>

SpecCompose == ComposeInit /\ [][ComposeNext]_vars

(***************************************************************************)
(* main.py: paths and files                                                *)
(***************************************************************************)

\* Paths are sequences of characters, so that "'gs' in path" is a substring
\* test.  A time stamp or a random tag is one element: it holds digits and
\* underscores only.
Contains(sub, str) ==
    \E i \in 0..(Len(str) - Len(sub)) : SubSeq(str, i + 1, i + Len(sub)) = sub

EndsWith(str, suf) ==
    Len(str) >= Len(suf) /\ SubSeq(str, Len(str) - Len(suf) + 1, Len(str)) = suf

StartsWith(str, pre) ==
    Len(str) >= Len(pre) /\ SubSeq(str, 1, Len(pre)) = pre

\* os.path.join(a, b)
path_join(a, b) ==
    IF b # <<>> /\ Head(b) = "/" THEN b
    ELSE IF a = <<>> \/ a[Len(a)] = "/" THEN a \o b
    ELSE a \o <<"/">> \o b

\* os.path.basename(p): what follows the last "/".
RECURSIVE path_basename(_)
path_basename(p) ==
    IF \A i \in 1..Len(p) : p[i] # "/" THEN p
    ELSE path_basename(Tail(p))

CloudDir == <<"g", "s", ":", "/", "/", "b">>        \* gs://b
LocalDir == <<"/", "o">>                            \* /o
LocalGsDir == <<"/", "l", "o", "g", "s">>           \* /logs
ArtifactPaths == {CloudDir, LocalDir, LocalGsDir}

RootDir == <<"/", "r">>                             \* default_root_dir
TmpOutput == <<"/", "t">>                           \* '/tmp/output'
Cwd == <<".", "/">>                                 \* './'
CheckpointName == <<"c", ".", "p", "t">>            \* 'torch_checkpoint.pt'
TarGz == <<".", "t", "g", "z">>                     \* '.tar.gz'
OldArchivePath == <<"/", "d", "l">> \o TarGz        \* an archive fetched earlier
NoPath == <<"/", "n">>                              \* nothing is there
MissingLocal == <<"/", "x">> \o TarGz               \* nothing is there
MissingCloud == CloudDir \o <<"/", "x">> \o TarGz   \* no such object

Timestamps == {"20201230_182159"}
RandomTags == {"100000", "999999"}

\* f'model_artifacts__{timestamp}__{random_tag}.tar.gz'
ArtifactFilename(ts, tag) == <<"m", "_", ts, "_", tag>> \o TarGz

\* The recognition of a cloud destination in _save_model: 'gs://' in path.
IsCloudDestination(p) == Contains(<<"g", "s", ":", "/", "/">>, p)

\* The recognition of a cloud source in unpack_artifact: 'gs' in path.
IsCloudSource(p) == Contains(<<"g", "s">>, p)

Dir == [kind |-> "dir"]
PlainFile(content) == [kind |-> "file", tar |-> FALSE, content |-> content]
TarFile(content) == [kind |-> "file", tar |-> TRUE, content |-> content]

Put(f, p, v) == [q \in DOMAIN f \cup {p} |-> IF q = p THEN v ELSE f[q]]

isdir(f, p) == p \in DOMAIN f /\ f[p].kind = "dir"
isfile(f, p) == p \in DOMAIN f /\ f[p].kind = "file"

\* What training run left the archive that was fetched earlier.
OldCheckpoint ==
    [data_module |-> "DataA", data_hparams |-> <<>>,
     model_module |-> "ModelB",
     model_hparams |-> [n \in ModelHparamNames |-> 1],
     graph_module |-> "GraphB", graph_hparams |-> <<>>,
     model_state_dict |-> [n \in ModuleNames |-> 0],
     timestamp |-> "20201229_000000", random_tag |-> "555555"]

InitialFiles ==
    [p \in {Cwd, TmpOutput, RootDir, OldArchivePath} |->
        IF p = OldArchivePath THEN TarFile([checkpoint |-> OldCheckpoint])
        ELSE Dir]

\* The external copy command, 'gsutil cp src dst'.  env is what the machine
\* offers: the command absent, a failing transfer, or a working one.  A
\* source that does not exist makes the command exit non-zero.
GsutilEnv == {"absent", "fails", "works"}

gsutil_cp(f, c, src, dst, env) ==
    LET srcCloud == StartsWith(src, <<"g", "s", ":", "/", "/">>)
        dstCloud == StartsWith(dst, <<"g", "s", ":", "/", "/">>)
        have == IF srcCloud THEN src \in DOMAIN c ELSE isfile(f, src)
        obj == IF srcCloud THEN c[src] ELSE f[src]
        target == IF ~dstCloud /\ isdir(f, dst)
                  THEN path_join(dst, path_basename(src)) ELSE dst
    IN  IF env = "absent"
        THEN [status |-> "FileNotFoundError", fs |-> f, cloud |-> c]
        ELSE IF env = "fails" \/ ~have
        THEN [status |-> "nonzero", fs |-> f, cloud |-> c]
        ELSE IF dstCloud
        THEN [status |-> "zero", fs |-> f, cloud |-> Put(c, target, obj)]
        ELSE [status |-> "zero", fs |-> Put(f, target, obj), cloud |-> c]

(***************************************************************************)
(* main.py: main and _save_model                                           *)
(***************************************************************************)

\* The statements of main and _save_model follow one another.
main_next(p) ==
    CASE p = "start" -> "resolved"
      [] p = "resolved" -> "instantiated"
      [] p = "instantiated" -> "composed"
      [] p = "composed" -> "trained"
      [] p = "trained" -> "checkpointed"
      [] p = "checkpointed" -> "archived"
      [] p = "archived" -> "done"
      [] OTHER -> p

\* A slip: the exception is caught and the run goes on.
Raise_swallowed(p) == main_next(p)

\* Neither main nor _save_model catches anything: an exception at position p
\* ends the run.
Raise(p) == "failed"

Logged(step, ok) == Append(trainer_log, [step |-> step, ok |-> ok])

\* getattr(boda.data, ...), getattr(boda.model, ...), getattr(boda.graph, ...)
Resolve ==
    /\ pc = "start"
    /\ LET ok == /\ args.data_module \in DataRegistry
                 /\ args.model_module \in ModelRegistry
                 /\ args.graph_module \in GraphRegistry
       IN  /\ pc' = IF ok THEN main_next(pc) ELSE Raise(pc)
           /\ trainer_log' = Logged("resolve", ok)
    /\ UNCHANGED <<args, model, types, fs, cloud, cwd_extract, gsutil_calls,
                   unpack, restored>>

\* data = data_module(...); model = model_module(...)
Instantiate ==
    /\ pc = "resolved"
    /\ \E w \in Weights :
         model' = NewModel(args.model_module, args.model_hparams, w)
    /\ pc' = main_next(pc)
    /\ trainer_log' = Logged("instantiate", TRUE)
    /\ UNCHANGED <<args, types, fs, cloud, cwd_extract, gsutil_calls,
                   unpack, restored>>

\* model.__class__ = type('BODA_module', ...)
Compose ==
    /\ pc = "instantiated"
    /\ LET r == ComposeModel(model, types, args.model_module,
                             args.graph_module, args.graph_hparams)
       IN  model' = r.model /\ types' = r.types
    /\ pc' = main_next(pc)
    /\ trainer_log' = Logged("compose", TRUE)
    /\ UNCHANGED <<args, fs, cloud, cwd_extract, gsutil_calls, unpack, restored>>

\* os.makedirs(...); trainer = Trainer...; trainer.fit(model, data): the
\* framework leaves some weights, or raises.
Fit ==
    /\ pc = "composed"
    /\ \/ /\ \E w \in Weights : model' = [model EXCEPT !.modules = w]
          /\ pc' = main_next(pc)
          /\ trainer_log' = Logged("fit", TRUE)
       \/ /\ model' = model
          /\ pc' = Raise(pc)
          /\ trainer_log' = Logged("fit", FALSE)
    /\ UNCHANGED <<args, types, fs, cloud, cwd_extract, gsutil_calls,
                   unpack, restored>>

\* save_dict of _save_model
save_dict(a, m, ts, tag) ==
    [data_module |-> a.data_module, data_hparams |-> a.data_hparams,
     model_module |-> a.model_module, model_hparams |-> a.model_hparams,
     graph_module |-> a.graph_module, graph_hparams |-> a.graph_hparams,
     model_state_dict |-> m.modules,
     timestamp |-> ts, random_tag |-> tag]

CheckpointPath == path_join(RootDir, CheckpointName)

\* torch.save(save_dict, os.path.join(local_dir, 'torch_checkpoint.pt'))
SaveCheckpoint ==
    /\ pc = "trained"
    /\ \E ts \in Timestamps, tag \in RandomTags :
         fs' = Put(fs, CheckpointPath, PlainFile(save_dict(args, model, ts, tag)))
    /\ pc' = main_next(pc)
    /\ trainer_log' = Logged("checkpoint", TRUE)
    /\ UNCHANGED <<args, model, types, cloud, cwd_extract, gsutil_calls,
                   unpack, restored>>

\* The archive's name follows from the checkpoint just written.
SavedFilename ==
    ArtifactFilename(fs[CheckpointPath].content.timestamp,
                     fs[CheckpointPath].content.random_tag)

\* tar.add(local_dir, arcname='artifacts') into /tmp/output/<filename>
Archive ==
    /\ pc = "checkpointed"
    /\ fs' = Put(fs, path_join(TmpOutput, SavedFilename),
                 TarFile([checkpoint |-> fs[CheckpointPath].content]))
    /\ pc' = main_next(pc)
    /\ trainer_log' = Logged("archive", TRUE)
    /\ UNCHANGED <<args, model, types, cloud, cwd_extract, gsutil_calls,
                   unpack, restored>>

\* Upload with subprocess.check_call, or makedirs and shutil.copy.
Deposit ==
    /\ pc = "archived"
    /\ LET src == path_join(TmpOutput, SavedFilename)
           dst == path_join(args.artifact_path, SavedFilename)
       IN  IF IsCloudDestination(args.artifact_path)
           THEN \E env \in GsutilEnv :
                  LET r == gsutil_cp(fs, cloud, src, dst, env)
                  IN  /\ gsutil_calls' = Append(gsutil_calls, <<src, dst>>)
                      /\ fs' = r.fs
                      /\ cloud' = r.cloud
                      /\ pc' = IF r.status = "zero" THEN main_next(pc)
                               ELSE Raise(pc)
                      /\ trainer_log' = Logged("deposit", r.status = "zero")
           ELSE /\ fs' = Put(Put(fs, args.artifact_path, Dir), dst, fs[src])
                /\ pc' = main_next(pc)
                /\ trainer_log' = Logged("deposit", TRUE)
                /\ UNCHANGED <<cloud, gsutil_calls>>
    /\ UNCHANGED <<args, model, types, cwd_extract, unpack, restored>>

(***************************************************************************)
(* main.py: unpack_artifact and model_fn                                   *)
(***************************************************************************)

NoMessage == ""
MsgNotFound == "Could not find file at expected path."
MsgNotTar == "Expected a tarfile at {tar_model}. Not found."

\* unpack_artifact(artifact_path, download_path) on files f and cloud c, the
\* copy command behaving as env.  tar_model is <<>> while the local is
\* unbound.  The result tells how the call ended and what it left.
unpack_artifact(f, c, artifact_path, download_path, env) ==
    LET cloudBranch == IsCloudSource(artifact_path)
        cp == gsutil_cp(f, c, artifact_path, download_path, env)
        copy == IF cloudBranch THEN cp.status ELSE "none"
        f1 == IF cloudBranch THEN cp.fs ELSE f
        tar_model ==
            IF cloudBranch
            THEN IF isdir(f1, download_path)
                 THEN <<path_join(download_path, path_basename(artifact_path))>>
                 ELSE IF isfile(f1, download_path) THEN <<download_path>>
                 ELSE <<>>
            ELSE <<artifact_path>>
        resolved ==
            IF copy = "FileNotFoundError" THEN "none"
            ELSE IF tar_model = <<>> THEN "unbound"
            ELSE IF ~isfile(f1, tar_model[1]) THEN "missing"
            ELSE IF f1[tar_model[1]].tar THEN "tar" ELSE "not_tar"
        base == [artifact_path |-> artifact_path, download_path |-> download_path,
                 branch |-> IF cloudBranch THEN "cloud" ELSE "local",
                 copy |-> copy, tar_model |-> tar_model, resolved |-> resolved]
        end(status, stage, message, extracted) ==
            [call |-> [status |-> status, stage |-> stage, message |-> message,
                       extracted |-> extracted] @@ base,
             fs |-> f1,
             content |-> IF extracted THEN f1[tar_model[1]].content ELSE None]
    IN  IF copy = "FileNotFoundError"
        THEN end("FileNotFoundError", "copy", NoMessage, FALSE)
        ELSE IF ~cloudBranch /\ ~isfile(f, artifact_path)
        THEN end("AssertionError", "isfile", MsgNotFound, FALSE)
        ELSE IF resolved = "unbound"
        THEN end("UnboundLocalError", "is_tarfile", NoMessage, FALSE)
        ELSE IF resolved = "missing"
        THEN end("FileNotFoundError", "is_tarfile", NoMessage, FALSE)
        ELSE IF resolved = "not_tar"
        THEN end("AssertionError", "is_tarfile", MsgNotTar, FALSE)
        ELSE IF ~EndsWith(tar_model[1], TarGz)
        THEN end("ReadError", "unpack_archive", NoMessage, FALSE)
        ELSE end("returned", "unpack_archive", NoMessage, TRUE)

\* model_fn(model_dir) on what was extracted; w is the new model's random
\* initialisation, which load_state_dict overwrites.
model_fn(extract, w) ==
    IF extract = None
    THEN [status |-> "FileNotFoundError"]
    ELSE LET checkpoint == extract.checkpoint
         IN  IF checkpoint.model_module \notin ModelRegistry
             THEN [status |-> "AttributeError"]
             ELSE [status |-> "returned",
                   model |-> [NewModel(checkpoint.model_module,
                                       checkpoint.model_hparams, w)
                                EXCEPT !.modules = checkpoint.model_state_dict,
                                       !.training = FALSE]]

\* The paths unpack_artifact is tried with: every file and cloud object
\* there is, and two paths where nothing is.
UnpackInputs ==
    DOMAIN cloud \cup {q \in DOMAIN fs : fs[q].kind = "file"}
      \cup {MissingLocal, MissingCloud}
DownloadPaths == {Cwd, OldArchivePath, NoPath}

\* The program is single-threaded and the loader serves a finished run: it
\* is called once main has returned or failed.
MainAtRest == pc \in {"done", "failed"}

UnpackArtifact ==
    /\ MainAtRest
    /\ unpack = NotRun
    /\ \E ap \in UnpackInputs, dp \in DownloadPaths, env \in GsutilEnv :
         LET r == unpack_artifact(fs, cloud, ap, dp, env)
         IN  /\ unpack' = r.call
             /\ fs' = r.fs
             /\ cwd_extract' = IF r.call.extracted THEN r.content ELSE cwd_extract
             /\ gsutil_calls' = IF r.call.copy = "none" THEN gsutil_calls
                                ELSE Append(gsutil_calls, <<ap, dp>>)
    /\ UNCHANGED <<args, pc, model, types, trainer_log, cloud, restored>>

ModelFn ==
    /\ MainAtRest
    /\ unpack # NotRun
    /\ restored = NotRun
    /\ \E w \in Weights : restored' = model_fn(cwd_extract, w)
    /\ UNCHANGED <<args, pc, model, types, trainer_log, fs, cloud, cwd_extract,
                   gsutil_calls, unpack>>

\* ---- Spec: one run of main, and the loader after it ----
DriverGraphHparams == {gh \in GraphHparams : DOMAIN gh = GraphHparamNames}

Init ==
    /\ modelParams = None
    /\ ModelIdle
    /\ args \in [data_module : DataRegistry, data_hparams : {<<>>},
                 model_module : ModelRegistry \cup {"NoSuchModel"},
                 model_hparams : ModelHparams,
                 graph_module : GraphRegistry,
                 graph_hparams : DriverGraphHparams,
                 artifact_path : ArtifactPaths]
    /\ pc = "start"
    /\ model = None
    /\ types = <<>>
    /\ trainer_log = <<>>
    /\ fs = InitialFiles
    /\ cloud = <<>>
    /\ cwd_extract = None
    /\ gsutil_calls = <<>>
    /\ unpack = NotRun
    /\ restored = NotRun

Next ==
    \/ Resolve /\ UNCHANGED mvars
    \/ Instantiate /\ UNCHANGED mvars
    \/ Compose /\ UNCHANGED mvars
    \/ Fit /\ UNCHANGED mvars
    \/ SaveCheckpoint /\ UNCHANGED mvars
    \/ Archive /\ UNCHANGED mvars
    \/ Deposit /\ UNCHANGED mvars
    \/ UnpackArtifact /\ UNCHANGED mvars
    \/ ModelFn /\ UNCHANGED mvars

Spec == Init /\ [][Next]_vars

(***************************************************************************)
(* Claims about the composition in main                                    *)
(***************************************************************************)

Composed == model # None /\ model.cls.kind = "dynamic"

\* The value read for an attribute, as a plain number n.
PlainValue(n) == [kind |-> "value", v |-> n]

\* Attribute names the construction of the model set.
ConstructionNames == DOMAIN model.dict \cup DOMAIN model.modules

MainSteps ==
    <<"resolve", "instantiate", "compose", "fit", "checkpoint", "archive",
      "deposit">>

ArchivePaths ==
    {path_join(TmpOutput, ArtifactFilename(ts, tag)) :
        ts \in Timestamps, tag \in RandomTags}
DepositPaths ==
    {path_join(args.artifact_path, ArtifactFilename(ts, tag)) :
        ts \in Timestamps, tag \in RandomTags}

StepDone(i) == Len(trainer_log) >= i /\ trainer_log[i].ok

\* C4: in every run of main the steps come in the order resolve,
\* instantiate, compose, train, write the checkpoint, make the archive,
\* deposit it; nothing follows a step that failed; and a checkpoint, an archive
\* or a deposit exists only once training (and each step before it) completed.
C4_StepsInOrder ==
    /\ Len(trainer_log) <= Len(MainSteps)
    /\ \A i \in 1..Len(trainer_log) : trainer_log[i].step = MainSteps[i]
    /\ \A i \in 1..(Len(trainer_log) - 1) : trainer_log[i].ok
    /\ CheckpointPath \in DOMAIN fs => StepDone(4)
    /\ (ArchivePaths \cap DOMAIN fs # {}) =>
          StepDone(4) /\ StepDone(5) /\ CheckpointPath \in DOMAIN fs
    /\ (DepositPaths \cap (DOMAIN fs \cup DOMAIN cloud) # {}) =>
          StepDone(4) /\ StepDone(5) /\ StepDone(6)
            /\ ArchivePaths \cap DOMAIN fs # {}
    /\ pc = "done" => \A i \in 1..Len(MainSteps) : StepDone(i)

\* C4 witness: a run that went through all seven steps and left its archive
\* in the cloud.
C4_Witness ==
    /\ pc = "done"
    /\ Len(trainer_log) = Len(MainSteps)
    /\ CheckpointPath \in DOMAIN fs
    /\ DepositPaths \cap DOMAIN cloud # {}

DepositPath == path_join(args.artifact_path, SavedFilename)

\* C1: when _save_model completed, unpack_artifact applied to the deposited
\* archive and model_fn applied to what it extracted give a model of the
\* class named by the stored model_module, built with the stored
\* model_hparams, whose weights are the model_state_dict that was saved.
C1_RoundTrip ==
    (/\ pc = "done"
     /\ unpack # NotRun
     /\ unpack.artifact_path = DepositPath
     /\ unpack.status = "returned"
     /\ restored # NotRun
     /\ restored.status = "returned")
        => LET saved == fs[CheckpointPath].content
           IN  /\ restored.model.cls = RegistryClass(saved.model_module)
               /\ restored.model.dict = saved.model_hparams
               /\ restored.model.modules = saved.model_state_dict

\* A cloud URI, as _save_model and the copy command know it.
IsCloudURI(p) == StartsWith(p, <<"g", "s", ":", "/", "/">>)

\* C8: unpack_artifact invokes the copy command if and only if the artifact
\* path is a cloud URI; for a local path the command is not invoked and the
\* given path itself is the one validated and extracted.
C8_CopyOnlyForCloudURI ==
    unpack # NotRun =>
        /\ (unpack.copy # "none") <=> IsCloudURI(unpack.artifact_path)
        /\ ~IsCloudURI(unpack.artifact_path) =>
              unpack.tar_model = <<unpack.artifact_path>>

\* C9: whenever the archive file unpack_artifact resolves is missing or is
\* no valid archive, on the cloud or the local branch and for any
\* download_path, the call stops with an assertion failure that carries a
\* message, and extracts nothing.
C9_InvalidArchiveAsserts ==
    (unpack # NotRun /\ unpack.resolved \in {"missing", "not_tar"}) =>
        /\ unpack.status = "AssertionError"
        /\ unpack.message # NoMessage
        /\ ~unpack.extracted

\* C10: whenever the copy command is missing or exits non-zero, during the
\* upload of _save_model and during the download of unpack_artifact, the
\* failure propagates as an error of the subprocess call and the operation
\* does not go on to its following steps.
C10_CopyFailurePropagates ==
    /\ (Len(trainer_log) = 7 /\ ~trainer_log[7].ok) => pc = "failed"
    /\ (unpack # NotRun /\ unpack.copy \in {"nonzero", "FileNotFoundError"}) =>
          /\ unpack.stage = "copy"
          /\ unpack.status \in {"CalledProcessError", "FileNotFoundError"}

(***************************************************************************)
(* Claims about customModel_example.py                                     *)
(***************************************************************************)

\* floor(n / stride) from its definition: the q with q*stride <= n < (q+1)*stride.
IsFloorOf(q, n, stride) == q * stride <= n /\ n < (q + 1) * stride

\* C5: for every L_in, kernel_size, padding, dilation and stride > 0,
\* conv1D_OutDim is floor((L_in + 2*padding - dilation*(kernel_size-1) - 1)
\* / stride) + 1, the convolution and the pooling stages of __init__ use that
\* one formula (pooling with padding 0 and dilation 1), and L_in=600,
\* kernel=6, stride=3, padding=0, dilation=1 gives 199.
C5_OutDimFormula ==
    /\ conv1D_OutDim(600, 6, 3, 0, 1) = 199
    /\ self # None =>
        /\ IsFloorOf(self.convLayerLen1 - 1,
                     self.seqLen + 2*self.padding1
                       - self.dilation1*(self.kernelSize1 - 1) - 1,
                     self.stride1)
        /\ IsFloorOf(self.poolLayerLen1 - 1,
                     self.convLayerLen1 - (self.poolKernel1 - 1) - 1,
                     self.poolStride1)
        /\ IsFloorOf(self.convLayerLen2 - 1,
                     self.poolLayerLen1 + 2*self.padding2
                       - self.dilation2*(self.kernelSize2 - 1) - 1,
                     self.stride2)
        /\ IsFloorOf(self.poolLayerLen2 - 1,
                     self.convLayerLen2 - (self.poolKernel2 - 1) - 1,
                     self.poolStride2)

\* C5 witness: a model was built whose first window does not fit the input,
\* so the numerator is negative and not a multiple of the stride.
C5_Witness ==
    /\ self # None
    /\ self.seqLen + 2*self.padding1
         - self.dilation1*(self.kernelSize1 - 1) - 1 < 0
    /\ self.stride1 > 1
    /\ self.convLayerLen1 = 0

\* C6: an optimizer string other than 'Adam' or 'RMS' makes
\* configure_optimizers raise an explicit configuration error.
C6_UnknownOptimizerRaisesConfigError ==
    (/\ self # None
     /\ self.optimizer \notin {"Adam", "RMS"}
     /\ optimizerResult # NotRun)
        => optimizerResult.status = "ConfigurationError"

\* C7: for one batch, training_step, validation_step and test_step each
\* complete, and each with the mean squared error of the batch as its loss.
C7_SameLossInAllSteps ==
    \A s \in StepNames :
        stepResult[s] # NotRun =>
            /\ stepResult[s].status = "returned"
            /\ stepResult[s].loss = mse_loss(batch.y_hat, batch.y)

====
